---- MODULE Spec2Model ----
(***************************************************************************)
(* WallEAI (wall-e/AI_Control_Interface.hpp): a command encoder that turns *)
(* motor calls into text lines printed on an Arduino HardwareSerial port.  *)
(*                                                                         *)
(* The sink is the byte stream accepted by the serial port.  Every method  *)
(* of WallEAI is one action; the action issues the method's print/println  *)
(* calls in program order, nested calls included.                         *)
(*                                                                         *)
(* A float is modelled by sign bit, class and an exact decimal magnitude   *)
(*   |x| = hi * 10^6 + lo + mil / 1000      (0 <= lo < 10^6, 0 <= mil < 1000)*)
(* so that the sign bit of zero, the 2-digit rounding and the "ovf" limit  *)
(* of Print::printFloat are all represented (hi/lo keep every number below *)
(* 2^31).  Binary rounding error of float/double arithmetic is not         *)
(* modelled.                                                               *)
(***************************************************************************)
EXTENDS Integers, Sequences, FiniteSets, TLC

\* Calls made on one WallEAI object over a reliable port.
MaxCalls == 2
\* Calls made on one WallEAI object when every kind of float is passed.
MaxWideCalls == 1
\* Calls made on one WallEAI object over a port whose writes may fail.
MaxFaultyCalls == 1

VARIABLES
    sink,       \* bytes accepted by *serialPort so far (a string)
    before,     \* sink as it was when the last call was entered
    ops,        \* the print/println calls the last call made on serialPort
    history,    \* the calls made on the object, oldest first
    ret,        \* what the last call handed back to its caller
    remaining,  \* calls the environment may still make
    faulty,     \* whether writes on the port can fail
    inputs      \* the magnitudes callers pass

vars == <<sink, before, ops, history, ret, remaining, faulty, inputs>>

----------------------------------------------------------------------------
(* float *)

Fin(neg, hi, lo, mil) ==
    [kind |-> "fin", neg |-> neg, hi |-> hi, lo |-> lo, mil |-> mil]
NaN == [kind |-> "nan", neg |-> FALSE, hi |-> 0, lo |-> 0, mil |-> 0]
Inf(neg) == [kind |-> "inf", neg |-> neg, hi |-> 0, lo |-> 0, mil |-> 0]

\* Unary minus on a float flips the sign bit and nothing else (-0.0 exists).
Neg(x) == [x EXCEPT !.neg = ~@]

\* x < 0.0
IsNegative(x) ==
    /\ x.kind /= "nan"
    /\ x.neg
    /\ (x.kind = "inf" \/ x.hi > 0 \/ x.lo > 0 \/ x.mil > 0)

\* |x| > 4294967040.0, the guard of Print::printFloat against overflow of
\* the unsigned long integer part.
ExceedsULong(x) ==
    \/ x.hi > 4294
    \/ x.hi = 4294 /\ x.lo > 967040
    \/ x.hi = 4294 /\ x.lo = 967040 /\ x.mil > 0

----------------------------------------------------------------------------
(* Arduino Print *)

\* Print::println() writes "\r\n".
EOL == "\r\n"

\* println(double) is println(double, 2).
DefaultDigits == 2

DigitChar(c) == <<"0", "1", "2", "3", "4", "5", "6", "7", "8", "9">>[c + 1]

\* Print::printNumber(n, 10): the decimal digits, least significant first,
\* until the quotient is zero; n = hi * 10^6 + lo.
RECURSIVE printNumber(_, _)
printNumber(hi, lo) ==
    LET c   == lo % 10
        nhi == hi \div 10
        nlo == (hi % 10) * 100000 + (lo \div 10)
    IN  IF nhi = 0 /\ nlo = 0
        THEN DigitChar(c)
        ELSE printNumber(nhi, nlo) \o DigitChar(c)

\* The loop of printFloat that extracts one digit of the remainder at a time
\* (remainder in thousandths).
RECURSIVE printFraction(_, _)
printFraction(remainder, digits) ==
    IF digits = 0 THEN ""
    ELSE LET r10     == remainder * 10
             toPrint == r10 \div 1000
         IN  DigitChar(toPrint) \o printFraction(r10 - toPrint * 1000, digits - 1)

RECURSIVE Pow10(_)
Pow10(n) == IF n = 0 THEN 1 ELSE 10 * Pow10(n - 1)

\* Print::printFloat(number, digits), for digits <= 2.
printFloat(number, digits) ==
    IF number.kind = "nan" THEN "nan"
    ELSE IF number.kind = "inf" THEN "inf"
    ELSE IF ExceedsULong(number) THEN "ovf"
    ELSE LET sign     == IF IsNegative(number) THEN "-" ELSE ""
             rounding == 500 \div Pow10(digits)
             m        == number.mil + rounding
             carry    == m \div 1000
             l        == number.lo + carry
             lo       == l % 1000000
             hi       == number.hi + (l \div 1000000)
         IN  sign \o printNumber(hi, lo)
                  \o (IF digits > 0 THEN "." ELSE "")
                  \o printFraction(m % 1000, digits)

\* The three Print calls the class uses, as the request made on the port:
\* which call it is and the bytes it puts on the wire when it succeeds.
print_str(s)       == [fn |-> "print",   bytes |-> s]
println_str(s)     == [fn |-> "println", bytes |-> s \o EOL]
println_float(deg) == [fn |-> "println", bytes |-> printFloat(deg, DefaultDigits) \o EOL]

\* The bytes the port accepts of a sequence of requests made in order.  A
\* request that fails puts nothing on the wire; the next request is made all
\* the same, and no request is made a second time.
RECURSIVE Accepted(_, _)
Accepted(writes, ok) ==
    IF writes = <<>> THEN ""
    ELSE (IF Head(ok) THEN Head(writes).bytes ELSE "")
             \o Accepted(Tail(writes), Tail(ok))

\* A failed request is made again until the port takes it.
Transmit_retry(s, writes, ok) ==
    s \o Accepted(writes, [i \in 1..Len(writes) |-> TRUE])

\* A call whose bytes equal everything sent so far is suppressed.
Transmit_dedup(s, writes, ok) ==
    IF s = Accepted(writes, ok) THEN s ELSE s \o Accepted(writes, ok)

\* The sink after a call: the object keeps nothing but the port pointer, so
\* the accepted bytes are appended to whatever the port took before.
Transmit(s, writes, ok) == s \o Accepted(writes, ok)

----------------------------------------------------------------------------
(* WallEAI: each method as the sequence of requests it makes on serialPort *)

rotateHead(degrees)       == <<print_str("HEAD_ROTATE:"), println_float(degrees)>>
moveNeckTop(degrees)      == <<print_str("NECK_TOP:"),    println_float(degrees)>>
moveNeckBottom(degrees)   == <<print_str("NECK_BOTTOM:"), println_float(degrees)>>
moveRightEye(degrees)     == <<print_str("RIGHT_EYE:"),   println_float(degrees)>>
moveLeftEye(degrees)      == <<print_str("LEFT_EYE:"),    println_float(degrees)>>
moveLeftArm(degrees)      == <<print_str("LEFT_ARM:"),    println_float(degrees)>>
moveRightArm(degrees)     == <<print_str("RIGHT_ARM:"),   println_float(degrees)>>
rotateLeftWheel(degrees)  == <<print_str("LEFT_WHEEL:"),  println_float(degrees)>>

\* The right wheel sent under the left wheel's token.
rotateRightWheel_leftToken(degrees) == <<print_str("LEFT_WHEEL:"), println_float(degrees)>>
rotateRightWheel(degrees) == <<print_str("RIGHT_WHEEL:"), println_float(degrees)>>

\* STOP_ALL sent as a print followed by an empty println.
stopAll_twoWrites == <<print_str("STOP_ALL"), println_str("")>>
stopAll == <<println_str("STOP_ALL")>>

\* Left eye first.
moveBothEyes_leftFirst(degrees) == moveLeftEye(degrees) \o moveRightEye(degrees)
moveBothEyes(degrees)   == moveRightEye(degrees) \o moveLeftEye(degrees)
\* Right arm first.
moveBothArms_rightFirst(degrees) == moveRightArm(degrees) \o moveLeftArm(degrees)
moveBothArms(degrees)   == moveLeftArm(degrees) \o moveRightArm(degrees)
moveBothWheels(degrees) == rotateLeftWheel(degrees) \o rotateRightWheel(degrees)
\* The negation applied to the right wheel instead of the left.
turnRobot_negatedRight(degrees) == rotateLeftWheel(degrees) \o rotateRightWheel(Neg(degrees))
turnRobot(degrees)      == rotateLeftWheel(Neg(degrees)) \o rotateRightWheel(degrees)
moveForward(degrees)    == moveBothWheels(degrees)
\* Backward without the negation.
moveBackward_noNegation(degrees) == moveBothWheels(degrees)
moveBackward(degrees)   == moveBothWheels(Neg(degrees))
\* Left turn without the negation.
turnLeft_noNegation(degrees) == turnRobot(degrees)
turnLeft(degrees)       == turnRobot(Neg(degrees))
turnRight(degrees)      == turnRobot(degrees)
spinRobot(degrees)      == turnRobot(degrees)

\* RESET_CENTER sent with print, leaving the line open.
resetToCenter_noNewline == <<print_str("RESET_CENTER")>>
resetToCenter == <<println_str("RESET_CENTER")>>

----------------------------------------------------------------------------
(* Environment: the arguments callers pass and the faults of the port *)

\* Every kind of float: +0, -0, 45, -90, -0.001 (shows "-0.00"), 1.996
\* (rounds up to "2.00"), 1e9 (the largest power of ten printed in full),
\* 1e10 and -1e10 (beyond the unsigned long range), NaN, +Inf and -Inf.
WideMagnitudes ==
    { Fin(FALSE, 0, 0, 0), Fin(TRUE, 0, 0, 0),
      Fin(FALSE, 0, 45, 0), Fin(TRUE, 0, 90, 0),
      Fin(TRUE, 0, 0, 1), Fin(FALSE, 0, 1, 996),
      Fin(FALSE, 1000, 0, 0), Fin(FALSE, 10000, 0, 0), Fin(TRUE, 10000, 0, 0),
      NaN, Inf(FALSE), Inf(TRUE) }

\* 0, 45, -90 and 1.996.
Magnitudes ==
    { Fin(FALSE, 0, 0, 0), Fin(FALSE, 0, 45, 0), Fin(TRUE, 0, 90, 0),
      Fin(FALSE, 0, 1, 996) }

\* 0, 45 and -90.
FaultyMagnitudes ==
    { Fin(FALSE, 0, 0, 0), Fin(FALSE, 0, 45, 0), Fin(TRUE, 0, 90, 0) }

NoArg == [kind |-> "none"]

\* Which of n requests succeed.
Outcomes(n) ==
    IF faulty THEN [1..n -> BOOLEAN] ELSE {[i \in 1..n |-> TRUE]}

----------------------------------------------------------------------------
(* State machine *)

\* WallEAI(HardwareSerial* serial): stores the pointer, writes nothing.
Init ==
    /\ sink = ""
    /\ before = ""
    /\ ops = <<>>
    /\ history = <<>>
    /\ ret = "none"
    /\ remaining = MaxCalls
    /\ faulty = FALSE
    /\ inputs = Magnitudes

\* A fresh object that is passed every kind of float.
InitWide ==
    /\ sink = ""
    /\ before = ""
    /\ ops = <<>>
    /\ history = <<>>
    /\ ret = "none"
    /\ remaining = MaxWideCalls
    /\ faulty = FALSE
    /\ inputs = WideMagnitudes

\* A fresh object on a port whose writes may fail.

InitFaulty ==
    /\ sink = ""
    /\ before = ""
    /\ ops = <<>>
    /\ history = <<>>
    /\ ret = "none"
    /\ remaining = MaxFaultyCalls
    /\ faulty = TRUE
    /\ inputs = FaultyMagnitudes

\* One call of a method: its requests go to the port in order, every method
\* is declared void.
Call(name, arg, writes) ==
    /\ remaining > 0
    /\ \E ok \in Outcomes(Len(writes)) :
          /\ sink' = Transmit(sink, writes, ok)
          /\ ops' = [i \in 1..Len(writes) |->
                        [fn |-> writes[i].fn, bytes |-> writes[i].bytes, ok |-> ok[i]]]
    /\ before' = sink
    /\ history' = Append(history, [name |-> name, arg |-> arg])
    /\ ret' = "void"
    /\ remaining' = remaining - 1
    /\ UNCHANGED <<faulty, inputs>>

RotateHead       == \E d \in inputs : Call("rotateHead", d, rotateHead(d))
MoveNeckTop      == \E d \in inputs : Call("moveNeckTop", d, moveNeckTop(d))
MoveNeckBottom   == \E d \in inputs : Call("moveNeckBottom", d, moveNeckBottom(d))
MoveRightEye     == \E d \in inputs : Call("moveRightEye", d, moveRightEye(d))
MoveLeftEye      == \E d \in inputs : Call("moveLeftEye", d, moveLeftEye(d))
MoveLeftArm      == \E d \in inputs : Call("moveLeftArm", d, moveLeftArm(d))
MoveRightArm     == \E d \in inputs : Call("moveRightArm", d, moveRightArm(d))
RotateLeftWheel  == \E d \in inputs : Call("rotateLeftWheel", d, rotateLeftWheel(d))
RotateRightWheel == \E d \in inputs : Call("rotateRightWheel", d, rotateRightWheel(d))
StopAll          == Call("stopAll", NoArg, stopAll)
MoveBothEyes     == \E d \in inputs : Call("moveBothEyes", d, moveBothEyes(d))
MoveBothArms     == \E d \in inputs : Call("moveBothArms", d, moveBothArms(d))
MoveBothWheels   == \E d \in inputs : Call("moveBothWheels", d, moveBothWheels(d))
TurnRobot        == \E d \in inputs : Call("turnRobot", d, turnRobot(d))
MoveForward      == \E d \in inputs : Call("moveForward", d, moveForward(d))
MoveBackward     == \E d \in inputs : Call("moveBackward", d, moveBackward(d))
TurnLeft         == \E d \in inputs : Call("turnLeft", d, turnLeft(d))
TurnRight        == \E d \in inputs : Call("turnRight", d, turnRight(d))
SpinRobot        == \E d \in inputs : Call("spinRobot", d, spinRobot(d))
ResetToCenter    == Call("resetToCenter", NoArg, resetToCenter)

Next ==
    \/ RotateHead
    \/ MoveNeckTop
    \/ MoveNeckBottom
    \/ MoveRightEye
    \/ MoveLeftEye
    \/ MoveLeftArm
    \/ MoveRightArm
    \/ RotateLeftWheel
    \/ RotateRightWheel
    \/ StopAll
    \/ MoveBothEyes
    \/ MoveBothArms
    \/ MoveBothWheels
    \/ TurnRobot
    \/ MoveForward
    \/ MoveBackward
    \/ TurnLeft
    \/ TurnRight
    \/ SpinRobot
    \/ ResetToCenter

Spec == Init /\ [][Next]_vars

SpecWide == InitWide /\ [][Next]_vars

SpecFaulty == InitFaulty /\ [][Next]_vars

----------------------------------------------------------------------------
(* The documented wire protocol (section 6 of the specification) *)

Motors ==
    {"head", "neckTop", "neckBottom", "rightEye", "leftEye",
     "leftArm", "rightArm", "leftWheel", "rightWheel"}

\* Logical motor -> wire token.
WireToken ==
    [m \in Motors |->
        CASE m = "head"       -> "HEAD_ROTATE"
          [] m = "neckTop"    -> "NECK_TOP"
          [] m = "neckBottom" -> "NECK_BOTTOM"
          [] m = "rightEye"   -> "RIGHT_EYE"
          [] m = "leftEye"    -> "LEFT_EYE"
          [] m = "leftArm"    -> "LEFT_ARM"
          [] m = "rightArm"   -> "RIGHT_ARM"
          [] m = "leftWheel"  -> "LEFT_WHEEL"
          [] m = "rightWheel" -> "RIGHT_WHEEL"]

\* Logical motor -> the primitive call that drives it.
PrimitiveOf ==
    [m \in Motors |->
        CASE m = "head"       -> "rotateHead"
          [] m = "neckTop"    -> "moveNeckTop"
          [] m = "neckBottom" -> "moveNeckBottom"
          [] m = "rightEye"   -> "moveRightEye"
          [] m = "leftEye"    -> "moveLeftEye"
          [] m = "leftArm"    -> "moveLeftArm"
          [] m = "rightArm"   -> "moveRightArm"
          [] m = "leftWheel"  -> "rotateLeftWheel"
          [] m = "rightWheel" -> "rotateRightWheel"]

Primitives    == {PrimitiveOf[m] : m \in Motors}
Parameterless == {"stopAll", "resetToCenter"}
Derived ==
    {"moveBothEyes", "moveBothArms", "moveBothWheels", "turnRobot",
     "moveForward", "moveBackward", "turnLeft", "turnRight", "spinRobot"}

\* <deg>: the magnitude in the port's default float format.
Deg(d) == printFloat(d, DefaultDigits)

\* The wire line of motor m with magnitude d.
Line(m, d) == WireToken[m] \o ":" \o Deg(d) \o EOL

Last == history[Len(history)]
Called(name) == history /= <<>> /\ Last.name = name

\* The last call added exactly the text out to the sink.
Produced(out) == sink = before \o out

\* Number of completed lines the last call asked the port to send.
LinesRequested == Cardinality({i \in 1..Len(ops) : ops[i].fn = "println"})

AnyWriteFailed == \E i \in 1..Len(ops) : ~ops[i].ok

\* Every request of the last call was made once, and the sink holds the
\* bytes of the accepted requests and nothing of the failed ones.
RECURSIVE TextOfAccepted(_)
TextOfAccepted(log) ==
    IF log = <<>> THEN ""
    ELSE (IF Head(log).ok THEN Head(log).bytes ELSE "") \o TextOfAccepted(Tail(log))

RequestsOf(name) ==
    IF name \in Parameterless THEN 1 ELSE IF name \in Primitives THEN 2 ELSE 4

NoRetryNoBuffer ==
    /\ Len(ops) = RequestsOf(Last.name)
    /\ sink = before \o TextOfAccepted(ops)

----------------------------------------------------------------------------
(* Claims *)

\* C1: for each of the nine motors m and every magnitude d, the primitive
\* call of m appends to the sink exactly the line TOKEN(m):d followed by the
\* line terminator, and nothing else.
C1_PrimitiveLine ==
    \A m \in Motors :
        Called(PrimitiveOf[m]) =>
            /\ Produced(Line(m, Last.arg))
            /\ LinesRequested = 1

\* rotateRightWheel(1e9) has appended its line.
C1_Witness ==
    /\ Called("rotateRightWheel")
    /\ Last.arg = Fin(FALSE, 1000, 0, 0)
    /\ sink = before \o "RIGHT_WHEEL:1000000000.00\r\n"

C3_OneOrTwoWrites ==
    history /= <<>> =>
        /\ Last.name \in Primitives \cup Parameterless => Len(ops) = 1
        /\ Last.name \in Derived => Len(ops) = 2
        /\ Len(ops) <= 2

\* C3 as the code has it: a primitive call makes exactly two write
\* operations on the sink (print of the token, println of the magnitude) that
\* form one line, a parameterless call exactly one, a derived call exactly
\* four that form two lines; no call makes more than four.
C3_WritesPerCall ==
    history /= <<>> =>
        /\ Last.name \in Primitives =>
              /\ Len(ops) = 2
              /\ ops[1].fn = "print" /\ ops[2].fn = "println"
        /\ Last.name \in Parameterless =>
              /\ Len(ops) = 1
              /\ ops[1].fn = "println"
        /\ Last.name \in Derived =>
              /\ Len(ops) = 4
              /\ ops[1].fn = "print" /\ ops[2].fn = "println"
              /\ ops[3].fn = "print" /\ ops[4].fn = "println"
        /\ Len(ops) <= 4

\* moveNeckTop(45) made two writes for its one line: the token with print,
\* the magnitude with println.
C3_Witness ==
    /\ Called("moveNeckTop")
    /\ Len(ops) = 2
    /\ ops[1].fn = "print" /\ ops[1].bytes = "NECK_TOP:"
    /\ ops[2].fn = "println" /\ ops[2].bytes = "45.00\r\n"

\* The text a call puts on the wire when made on its own, by the documented
\* protocol.
OwnLines(c) ==
    LET d == c.arg
        n == c.name
    IN  CASE n \in Primitives ->
                Line(CHOOSE m \in Motors : PrimitiveOf[m] = n, d)
          [] n = "stopAll"        -> "STOP_ALL" \o EOL
          [] n = "resetToCenter"  -> "RESET_CENTER" \o EOL
          [] n = "moveBothEyes"   -> Line("rightEye", d) \o Line("leftEye", d)
          [] n = "moveBothArms"   -> Line("leftArm", d) \o Line("rightArm", d)
          [] n = "moveBothWheels" -> Line("leftWheel", d) \o Line("rightWheel", d)
          [] n = "moveForward"    -> Line("leftWheel", d) \o Line("rightWheel", d)
          [] n = "moveBackward"   -> Line("leftWheel", Neg(d)) \o Line("rightWheel", Neg(d))
          [] n = "turnRobot"      -> Line("leftWheel", Neg(d)) \o Line("rightWheel", d)
          [] n = "turnRight"      -> Line("leftWheel", Neg(d)) \o Line("rightWheel", d)
          [] n = "spinRobot"      -> Line("leftWheel", Neg(d)) \o Line("rightWheel", d)
          [] n = "turnLeft"       -> Line("leftWheel", d) \o Line("rightWheel", Neg(d))

RECURSIVE Concatenation(_)
Concatenation(calls) ==
    IF calls = <<>> THEN ""
    ELSE OwnLines(Head(calls)) \o Concatenation(Tail(calls))

\* C4: after any sequence of calls the sink is the concatenation, in call
\* order, of the lines each call produces on its own: no call's output
\* depends on earlier calls, and a repeated call repeats its lines.
C4_Stateless == sink = Concatenation(history)

\* rotateHead(45) made twice in a row has sent its line twice.
C4_Witness ==
    /\ Len(history) = 2
    /\ history[1] = history[2]
    /\ Called("rotateHead")
    /\ sink = "HEAD_ROTATE:45.00\r\nHEAD_ROTATE:45.00\r\n"

\* C5: turnRobot(d) produces exactly two lines, LEFT_WHEEL:<-d> and then
\* RIGHT_WHEEL:<d>.
C5_TurnRobot ==
    Called("turnRobot") =>
        /\ Produced(Line("leftWheel", Neg(Last.arg)) \o Line("rightWheel", Last.arg))
        /\ LinesRequested = 2

\* turnRobot(-90) drove the left wheel forward and the right wheel back.
C5_Witness ==
    /\ Called("turnRobot")
    /\ Last.arg = Fin(TRUE, 0, 90, 0)
    /\ sink = before \o "LEFT_WHEEL:90.00\r\nRIGHT_WHEEL:-90.00\r\n"

\* C6: turnLeft(d) produces LEFT_WHEEL:<d> then RIGHT_WHEEL:<-d>, the output
\* of turnRobot(-d); turnRight(d) and spinRobot(d) produce the output of
\* turnRobot(d).
C6_TurnLeftRight ==
    /\ Called("turnLeft") =>
          Produced(Line("leftWheel", Last.arg) \o Line("rightWheel", Neg(Last.arg)))
    /\ (Called("turnRight") \/ Called("spinRobot")) =>
          Produced(Line("leftWheel", Neg(Last.arg)) \o Line("rightWheel", Last.arg))

\* turnLeft(-0.001) sent the magnitude itself to the left wheel and its
\* negation to the right wheel.
C6_Witness ==
    /\ Called("turnLeft")
    /\ Last.arg = Fin(TRUE, 0, 0, 1)
    /\ sink = before \o "LEFT_WHEEL:-0.00\r\nRIGHT_WHEEL:0.00\r\n"

\* C7: moveBothEyes(d) produces exactly two lines, RIGHT_EYE:<d> and then
\* LEFT_EYE:<d>.
C7_BothEyes ==
    Called("moveBothEyes") =>
        /\ Produced(Line("rightEye", Last.arg) \o Line("leftEye", Last.arg))
        /\ LinesRequested = 2

\* moveBothEyes(-90) sent the right eye's line first.
C7_Witness ==
    /\ Called("moveBothEyes")
    /\ sink = before \o "RIGHT_EYE:-90.00\r\nLEFT_EYE:-90.00\r\n"

\* C8: moveForward(d) produces the two lines of moveBothWheels(d),
\* LEFT_WHEEL:<d> then RIGHT_WHEEL:<d>; moveBackward(d) produces the two
\* lines of moveBothWheels(-d), LEFT_WHEEL:<-d> then RIGHT_WHEEL:<-d>.
C8_ForwardBackward ==
    /\ (Called("moveForward") \/ Called("moveBothWheels")) =>
          Produced(Line("leftWheel", Last.arg) \o Line("rightWheel", Last.arg))
    /\ Called("moveBackward") =>
          Produced(Line("leftWheel", Neg(Last.arg)) \o Line("rightWheel", Neg(Last.arg)))

\* moveBackward(45) sent -45 to both wheels, left wheel first.
C8_Witness ==
    /\ Called("moveBackward")
    /\ Last.arg = Fin(FALSE, 0, 45, 0)
    /\ sink = before \o "LEFT_WHEEL:-45.00\r\nRIGHT_WHEEL:-45.00\r\n"

\* C9: stopAll() produces exactly the line STOP_ALL and resetToCenter()
\* exactly the line RESET_CENTER, each with its terminator and nothing else.
C9_Parameterless ==
    /\ Called("stopAll") =>
          Produced("STOP_ALL" \o EOL) /\ LinesRequested = 1
    /\ Called("resetToCenter") =>
          Produced("RESET_CENTER" \o EOL) /\ LinesRequested = 1

\* resetToCenter() after stopAll().
C9_Witness ==
    /\ Called("resetToCenter")
    /\ sink = "STOP_ALL\r\nRESET_CENTER\r\n"

\* C10: moveBothArms(d) produces exactly two lines, LEFT_ARM:<d> and then
\* RIGHT_ARM:<d>.
C10_BothArms ==
    Called("moveBothArms") =>
        /\ Produced(Line("leftArm", Last.arg) \o Line("rightArm", Last.arg))
        /\ LinesRequested = 2

\* moveBothArms(-0.001) sent the left arm's line first.
C10_Witness ==
    /\ Called("moveBothArms")
    /\ sink = before \o "LEFT_ARM:-0.00\r\nRIGHT_ARM:-0.00\r\n"
====
